---- MODULE Spec2Model ----
(***************************************************************************)
(* Model of crates/sui-benchmark/src/drivers/mod.rs: the benchmark         *)
(* statistics snapshot (BenchmarkStats), its merge (update), its table row *)
(* (to_table) and the old/new comparison (BenchmarkCmp).                   *)
(*                                                                         *)
(* Two specifications share the module:                                    *)
(*   Spec     workers record into private snapshots, quiesce, and the      *)
(*            aggregator folds them in with BenchmarkStats::update;        *)
(*   SpecCmp  two snapshots are loaded and BenchmarkCmp::all_cmps or       *)
(*            BenchmarkStats::to_table is applied to them.                 *)
(*                                                                         *)
(* Durations are whole seconds (Duration::as_secs is the only way the code *)
(* reads them).  f64 values are exact rationals n/d plus the three IEEE    *)
(* specials NaN, +inf, -inf; the model's integers are far below 2^53, so   *)
(* every f64 operation the code performs on them is exact.                 *)
(***************************************************************************)
EXTENDS Integers, Sequences, FiniteSets, TLC

\* ------------------------------------------------------------------ bounds
MaxValue == 3        \* latency values are 0..MaxValue
MaxObs == 2          \* observations in a loaded snapshot's histogram
MaxWorkerObs == 1    \* observations a worker records before it quiesces
MaxError == 1        \* failed requests per snapshot
MaxDuration == 2     \* durations are 0..MaxDuration seconds

Workers == {"w1", "w2"}
MaxMerges == Cardinality(Workers)    \* update calls made by the aggregator
Values == 0..MaxValue
Durations == 0..MaxDuration

VARIABLES
    stats,      \* the aggregator's BenchmarkStats (self of update)
    ws,         \* each worker's private BenchmarkStats
    phase,      \* "run": workers record; "agg": the aggregator merges
    order,      \* the workers merged so far, in the order update was called
    last,       \* the last call: operation, arguments, self before, outcome
    old,        \* BenchmarkCmp.old
    new,        \* BenchmarkCmp.new
    pc,         \* comparator: "loaded", "compared" or "tabled"
    outcome,    \* comparator: "none", "ok" or "panic"
    cmps,       \* the Vec<Comparison> returned by all_cmps
    row         \* the row built by BenchmarkStats::to_table

vars == <<stats, ws, phase, order, last, old, new, pc, outcome, cmps, row>>
aggVars == <<stats, ws, phase, order, last>>
cmpVars == <<old, new, pc, outcome, cmps, row>>

\* --------------------------------------------------------------- histogram
\* hdrhistogram::Histogram<u64>: counts per value and the highest trackable
\* value it was configured with.  Values this small fall in unit-width
\* buckets, so the value recorded is the value reported.

RECURSIVE SumTo(_, _)
SumTo(c, v) == IF v < 0 THEN 0 ELSE c[v] + SumTo(c, v - 1)

EmptyHist(top) == [counts |-> [v \in Values |-> 0], highest |-> top]

\* Histogram::len: the number of observations
HistLen(h) == SumTo(h.counts, MaxValue)

\* Histogram::min: 0 for an empty histogram
HistMin(h) ==
    IF HistLen(h) = 0 THEN 0
    ELSE CHOOSE v \in Values : h.counts[v] > 0 /\ \A u \in Values : u < v => h.counts[u] = 0

\* Histogram::max: 0 for an empty histogram
HistMax(h) ==
    IF HistLen(h) = 0 THEN 0
    ELSE CHOOSE v \in Values : h.counts[v] > 0 /\ \A u \in Values : u > v => h.counts[u] = 0

\* Histogram::value_at_quantile(qn/qd): the first value at which the running
\* count reaches max(1, ceil(q * len)); 0 for an empty histogram
ValueAtQuantile(h, qn, qd) ==
    LET want == (qn * HistLen(h) + qd - 1) \div qd
        need == IF want = 0 THEN 1 ELSE want
    IN  IF HistLen(h) = 0 THEN 0
        ELSE CHOOSE v \in Values :
                /\ SumTo(h.counts, v) >= need
                /\ \A u \in Values : u < v => SumTo(h.counts, u) < need

\* Histogram::record(v): Err when v is above the highest trackable value
HistRecordFails(h, v) == v > h.highest
HistRecord(h, v) == [h EXCEPT !.counts[v] = @ + 1]

\* Histogram::add(source): Err, with self untouched, when source holds a
\* value above self's highest trackable value; otherwise adds the counts
HistAddFails(h, source) == HistMax(source) > h.highest
HistAdd(h, source) ==
    [h EXCEPT !.counts = [v \in Values |-> h.counts[v] + source.counts[v]]]

\* ---------------------------------------------------------- BenchmarkStats
EmptyStats(top) ==
    [duration |-> 0, num_error |-> 0, num_success |-> 0, latency_ms |-> EmptyHist(top)]

\* The driver's ingestion calls on a worker's private snapshot.
record_success(s, v) ==
    [s EXCEPT !.num_success = @ + 1, !.latency_ms = HistRecord(@, v)]

record_error(s) == [s EXCEPT !.num_error = @ + 1]

\* Mutant: the duration accumulates instead of being overwritten.
update_fields_sum_duration(self, duration, sample_stat) ==
    [self EXCEPT !.duration = @ + duration,
                 !.num_error = @ + sample_stat.num_error,
                 !.num_success = @ + sample_stat.num_success]

\* Mutant: num_error is overwritten (last-writer-wins) instead of added.
update_fields_overwrite_errors(self, duration, sample_stat) ==
    [self EXCEPT !.duration = duration,
                 !.num_error = sample_stat.num_error,
                 !.num_success = @ + sample_stat.num_success]

\* BenchmarkStats::update, lines 77-79: the three assignments that run
\* before the histogram addition
update_fields(self, duration, sample_stat) ==
    [self EXCEPT !.duration = duration,
                 !.num_error = @ + sample_stat.num_error,
                 !.num_success = @ + sample_stat.num_success]

\* BenchmarkStats::update panics when Histogram::add returns Err (.unwrap())
update_panics(self, sample_stat) ==
    HistAddFails(self.latency_ms, sample_stat.latency_ms)

\* Mutant: the histograms are not merged.
update_skip_histogram(self, duration, sample_stat) ==
    update_fields(self, duration, sample_stat)

\* BenchmarkStats::update: self after the call.  On the panic the fields
\* assigned by lines 77-79 keep their new values and the histogram its old.
update(self, duration, sample_stat) ==
    IF update_panics(self, sample_stat)
    THEN update_fields(self, duration, sample_stat)
    ELSE [update_fields(self, duration, sample_stat) EXCEPT
            !.latency_ms = HistAdd(@, sample_stat.latency_ms)]

NoCall == [op |-> "none", w |-> "none", duration |-> 0, value |-> 0,
           before |-> EmptyStats(MaxValue), result |-> "ok"]

panicked == last.result = "panic"

\* ------------------------------------------------------------- aggregation
CmpIdle ==
    /\ old = EmptyStats(MaxValue)
    /\ new = EmptyStats(MaxValue)
    /\ pc = "idle"
    /\ outcome = "none"
    /\ cmps = <<>>
    /\ row = <<>>

\* The aggregator's histogram may have been configured with a smaller range
\* than the workers' (the fields are public and deserializable), which is the
\* one way Histogram::add can fail.
Init ==
    /\ \E top \in {1, MaxValue} : stats = EmptyStats(top)
    /\ ws = [w \in Workers |-> EmptyStats(MaxValue)]
    /\ phase = "run"
    /\ order = <<>>
    /\ last = NoCall
    /\ CmpIdle

\* A worker records one successful request of latency v.
RecordSuccess(w, v) ==
    /\ phase = "run"
    /\ HistLen(ws[w].latency_ms) < MaxWorkerObs
    /\ ~HistRecordFails(ws[w].latency_ms, v)
    /\ ws' = [ws EXCEPT ![w] = record_success(@, v)]
    /\ last' = [NoCall EXCEPT !.op = "record_success", !.w = w, !.value = v,
                              !.before = ws[w]]
    /\ UNCHANGED <<stats, phase, order>>
    /\ UNCHANGED cmpVars

\* A worker records one failed request.
RecordError(w) ==
    /\ phase = "run"
    /\ ws[w].num_error < MaxError
    /\ ws' = [ws EXCEPT ![w] = record_error(@)]
    /\ last' = [NoCall EXCEPT !.op = "record_error", !.w = w, !.before = ws[w]]
    /\ UNCHANGED <<stats, phase, order>>
    /\ UNCHANGED cmpVars

\* The driver's finalize(duration) on a snapshot
finalize(s, duration) == [s EXCEPT !.duration = duration]

\* The run ends after d seconds: the workers stop recording, finalize their
\* snapshots and hand them to the aggregator.
Quiesce(d) ==
    /\ phase = "run"
    /\ phase' = "agg"
    /\ ws' = [w \in Workers |-> finalize(ws[w], d)]
    /\ last' = NoCall
    /\ UNCHANGED <<stats, order>>
    /\ UNCHANGED cmpVars

\* The aggregator calls stats.update(duration, &ws[w]).
Update(w, duration) ==
    /\ phase = "agg"
    /\ ~panicked
    /\ Len(order) < MaxMerges
    /\ stats' = update(stats, duration, ws[w])
    /\ order' = Append(order, w)
    /\ last' = [NoCall EXCEPT !.op = "update", !.w = w, !.duration = duration,
                              !.before = stats,
                              !.result = IF update_panics(stats, ws[w])
                                         THEN "panic" ELSE "ok"]
    /\ UNCHANGED <<ws, phase>>
    /\ UNCHANGED cmpVars

Next ==
    \/ \E w \in Workers, v \in Values : RecordSuccess(w, v)
    \/ \E w \in Workers : RecordError(w)
    \/ \E d \in Durations : Quiesce(d)
    \/ \E w \in Workers, d \in Durations : Update(w, d)

Spec == Init /\ [][Next]_vars

\* --------------------------------------------------------------------- f64
\* An f64 is a rational n/d (d > 0) or one of NaN, +inf, -inf.
Num(n, d) == [k |-> "num", n |-> n, d |-> d]
NaN == [k |-> "nan", n |-> 0, d |-> 1]
PosInf == [k |-> "inf", n |-> 0, d |-> 1]
NegInf == [k |-> "ninf", n |-> 0, d |-> 1]

\* `a as f64 / b as f64` for an i64 a and a non-negative integer b
FDiv(a, b) ==
    IF b = 0
    THEN (IF a = 0 THEN NaN ELSE IF a > 0 THEN PosInf ELSE NegInf)
    ELSE Num(a, b)

\* `1.0 + x`
FAddOne(x) == IF x.k = "num" THEN Num(x.n + x.d, x.d) ELSE x

\* `1.0 / x`: 1/NaN = NaN, 1/(+-inf) = (+-)0, 1/0 = +inf
FRecip(x) ==
    IF x.k = "nan" THEN NaN
    ELSE IF x.k \in {"inf", "ninf"} THEN Num(0, 1)
    ELSE IF x.n = 0 THEN PosInf
    ELSE IF x.n > 0 THEN Num(x.d, x.n)
    ELSE Num(-x.d, -x.n)

\* `x >= 1.0` (false for NaN)
FGeOne(x) == x.k = "inf" \/ (x.k = "num" /\ x.n >= x.d)

\* ------------------------------------------------------------ BenchmarkCmp
\* struct Comparison; old_value and new_value are format!("{:.2}", integer),
\* which prints the integer (a precision does not apply to integers).
Comparison(name, o, n, diff, diff_ratio, speedup) ==
    [name |-> name, old_value |-> ToString(o), new_value |-> ToString(n),
     diff |-> diff, diff_ratio |-> diff_ratio, speedup |-> speedup]

\* u64 `/`: panics when the divisor is 0
cmp_tps_panics(o, n) == o.duration = 0 \/ n.duration = 0

cmp_tps(o, n) ==
    LET old_tps == o.num_success \div o.duration
        new_tps == n.num_success \div n.duration
        diff == new_tps - old_tps
        diff_ratio == FDiv(diff, old_tps)
        speedup == FAddOne(diff_ratio)
    IN  Comparison("tps", old_tps, new_tps, diff, diff_ratio, speedup)

cmp_error_rate_panics(o, n) ==
    o.num_error + o.num_success = 0 \/ n.num_error + n.num_success = 0

cmp_error_rate(o, n) ==
    LET old_error_rate == o.num_error \div (o.num_error + o.num_success)
        new_error_rate == n.num_error \div (n.num_error + n.num_success)
        diff == new_error_rate - old_error_rate
        diff_ratio == FDiv(diff, old_error_rate)
        speedup == FRecip(FAddOne(diff_ratio))
    IN  Comparison("error_rate", old_error_rate, new_error_rate, diff, diff_ratio, speedup)

cmp_min_latency(o, n) ==
    LET ov == HistMin(o.latency_ms)
        nv == HistMin(n.latency_ms)
        diff == nv - ov
        diff_ratio == FDiv(diff, ov)
        speedup == FRecip(FAddOne(diff_ratio))
    IN  Comparison("min_latency", ov, nv, diff, diff_ratio, speedup)

cmp_p25_latency(o, n) ==
    LET ov == ValueAtQuantile(o.latency_ms, 25, 100)
        nv == ValueAtQuantile(n.latency_ms, 25, 100)
        diff == nv - ov
        diff_ratio == FDiv(diff, ov)
        speedup == FRecip(FAddOne(diff_ratio))
    IN  Comparison("p25_latency", ov, nv, diff, diff_ratio, speedup)

cmp_p50_latency(o, n) ==
    LET ov == ValueAtQuantile(o.latency_ms, 5, 10)
        nv == ValueAtQuantile(n.latency_ms, 5, 10)
        diff == nv - ov
        diff_ratio == FDiv(diff, ov)
        speedup == FRecip(FAddOne(diff_ratio))
    IN  Comparison("p50_latency", ov, nv, diff, diff_ratio, speedup)

cmp_p75_latency(o, n) ==
    LET ov == ValueAtQuantile(o.latency_ms, 75, 100)
        nv == ValueAtQuantile(n.latency_ms, 75, 100)
        diff == nv - ov
        diff_ratio == FDiv(diff, ov)
        speedup == FRecip(FAddOne(diff_ratio))
    IN  Comparison("p75_latency", ov, nv, diff, diff_ratio, speedup)

cmp_p90_latency(o, n) ==
    LET ov == ValueAtQuantile(o.latency_ms, 9, 10)
        nv == ValueAtQuantile(n.latency_ms, 9, 10)
        diff == nv - ov
        diff_ratio == FDiv(diff, ov)
        speedup == FRecip(FAddOne(diff_ratio))
    IN  Comparison("p90_latency", ov, nv, diff, diff_ratio, speedup)

\* Mutant: the higher-is-better formula applied to a latency.
cmp_p99_latency_higher_is_better(o, n) ==
    LET ov == ValueAtQuantile(o.latency_ms, 99, 100)
        nv == ValueAtQuantile(n.latency_ms, 99, 100)
        diff == nv - ov
        diff_ratio == FDiv(diff, ov)
        speedup == FAddOne(diff_ratio)
    IN  Comparison("p99_latency", ov, nv, diff, diff_ratio, speedup)

cmp_p99_latency(o, n) ==
    LET ov == ValueAtQuantile(o.latency_ms, 99, 100)
        nv == ValueAtQuantile(n.latency_ms, 99, 100)
        diff == nv - ov
        diff_ratio == FDiv(diff, ov)
        speedup == FRecip(FAddOne(diff_ratio))
    IN  Comparison("p99_latency", ov, nv, diff, diff_ratio, speedup)

cmp_p999_latency(o, n) ==
    LET ov == ValueAtQuantile(o.latency_ms, 999, 1000)
        nv == ValueAtQuantile(n.latency_ms, 999, 1000)
        diff == nv - ov
        diff_ratio == FDiv(diff, ov)
        speedup == FRecip(FAddOne(diff_ratio))
    IN  Comparison("p999_latency", ov, nv, diff, diff_ratio, speedup)

cmp_max_latency(o, n) ==
    LET ov == HistMax(o.latency_ms)
        nv == HistMax(n.latency_ms)
        diff == nv - ov
        diff_ratio == FDiv(diff, ov)
        speedup == FRecip(FAddOne(diff_ratio))
    IN  Comparison("max_latency", ov, nv, diff, diff_ratio, speedup)

\* all_cmps builds the vector element by element, so a panic in cmp_tps or
\* cmp_error_rate is a panic of all_cmps.
all_cmps_panics(o, n) == cmp_tps_panics(o, n) \/ cmp_error_rate_panics(o, n)

all_cmps(o, n) ==
    << cmp_tps(o, n), cmp_error_rate(o, n), cmp_min_latency(o, n),
       cmp_p25_latency(o, n), cmp_p50_latency(o, n), cmp_p75_latency(o, n),
       cmp_p90_latency(o, n), cmp_p99_latency(o, n), cmp_p999_latency(o, n),
       cmp_max_latency(o, n) >>

\* BenchmarkStats::to_table: the two u64 divisions of lines 105-107
to_table_panics(s) == s.duration = 0 \/ s.num_error + s.num_success = 0

\* BenchmarkStats::to_table: the eleven cells of the row, each the text of an
\* integer (Cell::new of a u64)
to_table(s) ==
    << ToString(s.duration),
       ToString(s.num_success \div s.duration),
       ToString(s.num_error \div (s.num_error + s.num_success)),
       ToString(HistMin(s.latency_ms)),
       ToString(ValueAtQuantile(s.latency_ms, 25, 100)),
       ToString(ValueAtQuantile(s.latency_ms, 5, 10)),
       ToString(ValueAtQuantile(s.latency_ms, 75, 100)),
       ToString(ValueAtQuantile(s.latency_ms, 9, 10)),
       ToString(ValueAtQuantile(s.latency_ms, 99, 100)),
       ToString(ValueAtQuantile(s.latency_ms, 999, 1000)),
       ToString(HistMax(s.latency_ms)) >>

\* -------------------------------------------------------------- comparison
\* The snapshots a finished run leaves behind: any duration, up to MaxError
\* errors and up to MaxObs successes, each with one latency observation.
LoadedHists ==
    { h \in [counts : [Values -> 0..MaxObs], highest : {MaxValue}] : HistLen(h) <= MaxObs }

LoadedStats ==
    { [duration |-> d, num_error |-> e, num_success |-> HistLen(h), latency_ms |-> h] :
        d \in Durations, e \in 0..MaxError, h \in LoadedHists }

AggIdle ==
    /\ stats = EmptyStats(MaxValue)
    /\ ws = [w \in Workers |-> EmptyStats(MaxValue)]
    /\ phase = "idle"
    /\ order = <<>>
    /\ last = NoCall

InitCmp ==
    /\ old \in LoadedStats
    /\ new \in LoadedStats
    /\ pc = "loaded"
    /\ outcome = "none"
    /\ cmps = <<>>
    /\ row = <<>>
    /\ AggIdle

\* BenchmarkCmp { new, old }.all_cmps()
Compare ==
    /\ pc = "loaded"
    /\ pc' = "compared"
    /\ IF all_cmps_panics(old, new)
       THEN outcome' = "panic" /\ cmps' = <<>>
       ELSE outcome' = "ok" /\ cmps' = all_cmps(old, new)
    /\ UNCHANGED <<old, new, row>>
    /\ UNCHANGED aggVars

\* old.to_table()
ToTable ==
    /\ pc = "loaded"
    /\ pc' = "tabled"
    /\ IF to_table_panics(old)
       THEN outcome' = "panic" /\ row' = <<>>
       ELSE outcome' = "ok" /\ row' = to_table(old)
    /\ UNCHANGED <<old, new, cmps>>
    /\ UNCHANGED aggVars

NextCmp ==
    \/ Compare
    \/ ToTable

SpecCmp == InitCmp /\ [][NextCmp]_vars

\* ============================================================== properties
RECURSIVE SumSet(_, _)
SumSet(f, S) ==
    IF S = {} THEN 0
    ELSE LET x == CHOOSE y \in S : TRUE IN f[x] + SumSet(f, S \ {x})

\* The integer a Comparison's old_value / new_value text denotes.
Parse(text) == CHOOSE i \in 0..(MaxValue + MaxObs) : ToString(i) = text

\* The f64 x is the rational a/b (b > 0).
IsRatio(x, a, b) == x.k = "num" /\ x.n * b = a * x.d

\* text is the decimal text of the exact ratio a/b
IsRatioText(text, a, b) == \E q \in 0..a : q * b = a /\ text = ToString(q)

Compared == pc = "compared"
Returned == pc = "compared" /\ outcome = "ok"

\* The eight latency values of a snapshot, in report order.
Latencies(s) ==
    << HistMin(s.latency_ms),
       ValueAtQuantile(s.latency_ms, 25, 100), ValueAtQuantile(s.latency_ms, 5, 10),
       ValueAtQuantile(s.latency_ms, 75, 100), ValueAtQuantile(s.latency_ms, 9, 10),
       ValueAtQuantile(s.latency_ms, 99, 100), ValueAtQuantile(s.latency_ms, 999, 1000),
       HistMax(s.latency_ms) >>

\* Metric m (1 = throughput, 2 = error rate, 3..10 = latencies) has a zero
\* or undefined baseline.
BaselineZero(m) ==
    IF m = 1 THEN old.duration = 0 \/ old.num_success = 0
    ELSE IF m = 2 THEN old.num_error + old.num_success = 0 \/ old.num_error = 0
    ELSE Latencies(old)[m - 2] = 0

\* How the comparison of metric m ended.  The code has no error value: a
\* metric panics (taking all_cmps with it) or yields a Comparison.
MetricResult(m) ==
    IF outcome = "panic" THEN "panic"
    ELSE IF cmps[m].diff_ratio.k # "num" \/ cmps[m].speedup.k # "num" THEN "non_finite"
    ELSE "value"

\* C1: after a comparison, every metric whose baseline value is 0 has failed
\* with DegenerateBaseline: no panic, no infinite or NaN diff_ratio or speedup.
C1_DegenerateBaseline ==
    Compared => \A m \in 1..10 : BaselineZero(m) => MetricResult(m) = "DegenerateBaseline"

\* C2: all_cmps completes for every pair of snapshots and reports all ten
\* metrics; one metric's zero baseline never aborts the comparison.
C2_AllTenReported ==
    Compared => outcome = "ok" /\ Len(cmps) = 10

\* C3: every comparison of a snapshot with itself that returns yields
\* diff = 0, diff_ratio = 0 and speedup = 1.0 for each of the ten metrics,
\* also when the snapshot's error rate is 0.
C3_IdentityComparison ==
    (Returned /\ old = new) =>
        /\ Len(cmps) = 10
        /\ \A m \in 1..10 :
            /\ cmps[m].diff = 0
            /\ IsRatio(cmps[m].diff_ratio, 0, 1)
            /\ IsRatio(cmps[m].speedup, 1, 1)

C5_RatioValues ==
    /\ Returned =>
        /\ IsRatioText(cmps[1].old_value, old.num_success, old.duration)
        /\ IsRatioText(cmps[1].new_value, new.num_success, new.duration)
        /\ cmps[1].diff * old.duration * new.duration
              = new.num_success * old.duration - old.num_success * new.duration
        /\ IsRatioText(cmps[2].old_value, old.num_error, old.num_error + old.num_success)
        /\ IsRatioText(cmps[2].new_value, new.num_error, new.num_error + new.num_success)
    /\ (pc = "tabled" /\ outcome = "ok") =>
        /\ IsRatioText(row[2], old.num_success, old.duration)
        /\ IsRatioText(row[3], old.num_error, old.num_error + old.num_success)

\* C9: the comparison output is always ten entries named throughput,
\* error_rate, min_latency, p25_latency, p50_latency, p75_latency,
\* p90_latency, p99_latency, p99.9_latency, max_latency, whatever the
\* snapshots hold.
C9_MetricNames ==
    Compared =>
        /\ outcome = "ok"
        /\ [m \in 1..Len(cmps) |-> cmps[m].name]
              = << "throughput", "error_rate", "min_latency", "p25_latency",
                   "p50_latency", "p75_latency", "p90_latency", "p99_latency",
                   "p99.9_latency", "max_latency" >>

\* An update call has just been made (order grows by the worker merged).
UpdateStep == order' # order

HistSum(before, other, after) ==
    \A v \in Values : after.counts[v] = before.counts[v] + other.counts[v]

\* C6 as claimed: an update that returns has set self.duration to
\* other.duration, added other's counters and histogram counts, and left
\* other unchanged.
C6_DurationFromOther ==
    [][(UpdateStep /\ last'.result = "ok") =>
        /\ stats'.duration = ws[last'.w].duration
        /\ stats'.num_success = stats.num_success + ws[last'.w].num_success
        /\ stats'.num_error = stats.num_error + ws[last'.w].num_error
        /\ HistSum(stats.latency_ms, ws[last'.w].latency_ms, stats'.latency_ms)
        /\ ws' = ws]_vars

\* C6 amended: update(duration, other) sets self.duration to its duration
\* argument, whatever other.duration is, adds other's num_success and
\* num_error, and leaves other unchanged; when it returns it has added
\* other's histogram counts, and when the histogram addition fails self's
\* histogram is as before.
C6_DurationFromArgument ==
    [][UpdateStep =>
        /\ stats'.duration = last'.duration
        /\ stats'.num_success = stats.num_success + ws[last'.w].num_success
        /\ stats'.num_error = stats.num_error + ws[last'.w].num_error
        /\ last'.result = "ok" =>
              HistSum(stats.latency_ms, ws[last'.w].latency_ms, stats'.latency_ms)
        /\ last'.result # "ok" => stats'.latency_ms = stats.latency_ms
        /\ ws' = ws]_vars

\* C6 witness: a second update has returned, its duration argument differs
\* from other.duration and from the duration set before, and both counters
\* and the histogram of self and of other were non-empty.
C6_Witness ==
    /\ last.op = "update" /\ last.result = "ok"
    /\ Len(order) = 2
    /\ last.duration # ws[last.w].duration
    /\ last.duration # last.before.duration
    /\ last.before.num_success > 0 /\ last.before.num_error > 0
    /\ ws[last.w].num_success > 0 /\ ws[last.w].num_error > 0
    /\ stats.duration = last.duration

AllMerged ==
    /\ phase = "agg"
    /\ ~panicked
    /\ Len(order) = Cardinality(Workers)
    /\ {order[i] : i \in 1..Len(order)} = Workers

\* C7: once every worker's snapshot has been merged exactly once into the
\* empty aggregate, in whatever order, num_success, num_error and each
\* histogram count are the sums over the workers; duration is the one given
\* to the last merge.
C7_MergeOrderIndependent ==
    AllMerged =>
        /\ stats.num_success = SumSet([w \in Workers |-> ws[w].num_success], Workers)
        /\ stats.num_error = SumSet([w \in Workers |-> ws[w].num_error], Workers)
        /\ \A v \in Values :
              stats.latency_ms.counts[v]
                 = SumSet([w \in Workers |-> ws[w].latency_ms.counts[v]], Workers)
        /\ stats.duration = last.duration

\* C7 witness: w2 was merged before w1, the two workers hold different
\* counts and latencies, and the two merges carried different durations.
C7_Witness ==
    /\ AllMerged
    /\ order = <<"w2", "w1">>
    /\ ws["w1"].num_success = 1 /\ ws["w2"].num_success = 1
    /\ ws["w1"].latency_ms # ws["w2"].latency_ms
    /\ ws["w1"].num_error # ws["w2"].num_error
    /\ last.duration # last.before.duration

CountsAgree(s) == s.num_success = HistLen(s.latency_ms)

C10_FailedMergeAtomic ==
    (last.op = "update" /\ update_panics(last.before, ws[last.w])) =>
        /\ last.result = "IncompatibleHistogram"
        /\ stats = last.before

====
